---- MODULE Spec2Model ----
(***************************************************************************)
(* AutoPush (src/AutoPush.py): a single-threaded scheduler loop that polls *)
(* config.json for a newer modification time, re-registers one recurring   *)
(* commit_and_push task per configured project, and runs the due tasks.    *)
(*                                                                         *)
(* The version-control, hosting and message-generation collaborators       *)
(* (git_utils, genai_utils, the git subprocesses) are the environment:     *)
(* every call's outcome is an input chosen with \E.  Time is counted in    *)
(* minutes, the unit of every job's period: main's loop is followed at the *)
(* ticks where a minute has gone by (nothing is due at the ticks between), *)
(* so one Sleep step stands for the sleeps of one minute.                  *)
(***************************************************************************)
EXTENDS Integers, Sequences, FiniteSets, TLC

\* ------------------------------------------------------------------ bounds
NumProjects == 2      \* distinct projects (folder/repository pairs) that exist
MaxClock    == 2      \* minutes the scheduler loop is followed for
WatchClock  == 1      \* the same, while config.json is being edited
MaxMtime    == 2      \* largest modification time the file system reports
MaxAhead    == 2      \* most local commits a repository is ahead of its remote

\* ------------------------------------------------------- program constants
ReloadEvery == 1      \* schedule.every(1).minute.do(check_config_changes)

Projects == 1..NumProjects
NoUser   == "none"
None     == -1        \* config_last_modified = None

\* config['interval'] of project p, in minutes (a positive integer).
Interval(p) == p

\* ------------------------------------------------- configuration documents
\* The "projects" lists: the first n projects in order, and the last n in reverse
\* order (so that a reload can add, remove, replace and reorder projects).
ProjectLists ==
    {[i \in 1..n |-> i] : n \in 0..NumProjects}
        \cup {[i \in 1..n |-> NumProjects + 1 - i] : n \in 0..NumProjects}

Malformed   == [kind |-> "malformed", user |-> NoUser, projects |-> <<>>]
EmptyObject == [kind |-> "empty",     user |-> NoUser, projects |-> <<>>]
NoConfig    == [kind |-> "none",      user |-> NoUser, projects |-> <<>>]
\* What open() gives for a file the process may not read: PermissionError.
Unreadable  == [kind |-> "unreadable", user |-> NoUser, projects |-> <<>>]
\* One document per project list; documents of different lengths alternate users.
Owner(ps)   == IF Len(ps) % 2 = 1 THEN "bob" ELSE "alice"
ConfigDocs  == {[kind |-> "config", user |-> Owner(ps), projects |-> ps] :
                    ps \in ProjectLists}
Docs        == {Malformed, EmptyObject} \cup ConfigDocs

\* open() raises something load_config does not catch (lines 120-125 catch only
\* FileNotFoundError and JSONDecodeError).
LoadRaises(exists, doc) == exists /\ doc.kind = "unreadable"

\* load_config: None when the file is missing or is not JSON, else the document.
load_config(exists, doc) ==
    IF ~exists THEN NoConfig
    ELSE IF doc.kind = "malformed" THEN NoConfig
    ELSE doc

\* Python truth value of the loaded configuration ("if not config").
Truthy(cfg) == cfg.kind = "config"

\* --------------------------------------------------------- commit messages
\* A generated message is None or a string; a string is a sequence of characters.
SYNTAX_ERROR == <<"S","Y","N","T","A","X","_","E","R","R","O","R">>
AutoCommit   == <<"A","u","t","o"," ","c","o","m","m","i","t">>

NullMsg   == [null |-> TRUE,  text |-> <<>>]
Str(t)    == [null |-> FALSE, text |-> t]

Messages ==
    { NullMsg,
      Str(<<>>),
      Str(<<"f","i","x">>),
      Str(SYNTAX_ERROR),
      Str(<<"x"," ">> \o SYNTAX_ERROR \o <<"!">>),
      Str(<<"S","Y","N","T","A","X","_","E","R","R","O">>) }

\* Python truth value of a message ("if not commit_message").
MsgTruthy(m) == ~m.null /\ m.text # <<>>

\* Python substring test: needle in hay.
Contains(hay, needle) ==
    \E i \in 1..(Len(hay) - Len(needle) + 1) :
        SubSeq(hay, i, i + Len(needle) - 1) = needle

VARIABLES
    pc,                    \* where main is: "main", "register", "loop", "tick", "exited"
    running,               \* the module-wide running flag
    exitStatus,            \* the process's exit status, -1 while it runs
    now,                   \* the clock, in minutes
    stamp,                 \* how many clock readings scheduled a run so far
    fileExists,            \* whether config.json exists
    fileMtime,             \* its modification time
    fileDoc,               \* its content
    config_last_modified,  \* the last-recorded modification time, or None
    config,                \* the module-wide config (NoConfig for None)
    lastLoaded,            \* the projects of the last configuration loaded, and those scheduled
    jobs,                  \* the module-wide list of project jobs (their ids)
    registry,              \* schedule's job list, in registration order
    pending,               \* run_pending's sorted list of the jobs due this tick
    credentials,           \* what git_utils and genai_utils were configured with
    repo,                  \* each project's folder and remote
    poll,                  \* what the last check_config_changes did
    cycle,                 \* what the last commit_and_push did
    unpulled               \* whether each project's last cycle ended in a failed pull

vars == <<pc, running, exitStatus, now, stamp, fileExists, fileMtime, fileDoc,
          config_last_modified, config, lastLoaded, jobs, registry, pending,
          credentials, repo, poll, cycle, unpulled>>

\* ------------------------------------------------------------- repositories
\* A project's folder and remote: whether the folder has .git, whether the remote
\* repository exists on the host, whether origin is configured, whether the folder
\* has unstaged changes, whether the index differs from HEAD, and how many local
\* commits were never pushed.
FreshRepo == [hasGit |-> FALSE, remote |-> FALSE, origin |-> FALSE,
              dirty |-> FALSE, staged |-> FALSE, ahead |-> 0]
ReadyRepo == [hasGit |-> TRUE, remote |-> TRUE, origin |-> TRUE,
              dirty |-> FALSE, staged |-> FALSE, ahead |-> 0]

\* ---------------------------------------------------------------- scheduler
\* schedule.every(n).minutes.do(f): a job whose next run is n minutes after the
\* clock reading that scheduled it; seq orders the readings within one minute.
NewJob(kind, p, every, t, n) ==
    [id |-> n, kind |-> kind, proj |-> p, tick |-> t + every, seq |-> n]

\* job.should_run: datetime.now() >= next_run.
ShouldRun(j, t) == t >= j.tick

\* Job.__lt__: jobs compare by next_run.
Earlier(a, b) == a.tick < b.tick \/ (a.tick = b.tick /\ a.seq < b.seq)

\* sorted(): stable, so among equal next_run the earlier list position wins.
RECURSIVE SortJobs(_)
SortJobs(js) ==
    IF js = <<>> THEN <<>>
    ELSE LET m == CHOOSE i \in 1..Len(js) :
                     \A k \in 1..Len(js) :
                         k # i => (Earlier(js[i], js[k]) \/
                                   (~Earlier(js[k], js[i]) /\ i < k))
             rest == [k \in 1..(Len(js) - 1) |-> IF k < m THEN js[k] ELSE js[k + 1]]
         IN <<js[m]>> \o SortJobs(rest)

\* A run_pending that takes the due jobs as the registry lists them.
DueInRegistryOrder(reg, t) == SelectSeq(reg, LAMBDA j : ShouldRun(j, t))

\* run_pending: the due jobs of the registry, sorted, fixed before any of them runs.
RunnableJobs(reg, t) == SortJobs(SelectSeq(reg, LAMBDA j : ShouldRun(j, t)))

IdsOf(js) == {js[i] : i \in 1..Len(js)}

\* A reload that forgets to cancel: the old jobs stay registered.
CancelNone(reg, js) == reg

\* for job in jobs: schedule.cancel_job(job) -- every listed job leaves the registry.
CancelAll(reg, js) == SelectSeq(reg, LAMBDA j : j.id \notin IdsOf(js))

\* A scheduler that drops a job once it has run.
RunOnce(reg, id, every, t, n) == SelectSeq(reg, LAMBDA j : j.id # id)

\* self.last_run = now; self._schedule_next_run(): only a job still registered is
\* seen again by run_pending.
Reschedule(reg, id, every, t, n) ==
    [k \in 1..Len(reg) |->
        IF reg[k].id = id THEN [reg[k] EXCEPT !.tick = t + every, !.seq = n]
        ELSE reg[k]]

ProjectJobs(reg) == SelectSeq(reg, LAMBDA j : j.kind = "project")
ReloadJobs(reg)  == SelectSeq(reg, LAMBDA j : j.kind = "reload")

\* ------------------------------------------------------------- sync_project
\* The one step of setup that goes wrong, if any.  A *_fail step returns False (or
\* None for the URL); a *_raise step raises something other than CalledProcessError.
SetupFaults == {"none", "init_fail", "rebase_fail", "url_fail", "probe_raise",
                "create_fail", "origin_raise", "add_fail"}

\* Every call of a setup succeeds, but the calls take a minute between them.
Slow == "slow"

\* The setup of the project at hand made the calls xs, in order.
Did(s, xs) == [s EXCEPT !.calls[Len(s.calls)] = @ \o xs]

\* schedule.every(interval).minutes.do(commit_and_push); jobs.append(job)
RegisterProject(s, p, t) ==
    [Did(s, <<"register">>) EXCEPT
        !.registry = Append(s.registry,
                            NewJob("project", p, Interval(p), t + s.late, s.stamp + 1)),
        !.jobs     = Append(s.jobs, s.stamp + 1),
        !.stamp    = s.stamp + 1,
        !.results  = Append(s.results, "registered")]

SetupEnds(s, how) == [s EXCEPT !.results = Append(s.results, how)]

\* A setup that adds origin without looking whether one is configured.
AddOriginAlways(s, p, f, t) ==
    LET q == Did(s, <<"get_origin">>)
        a == Did(q, <<"add_origin">>)
    IN IF f = "origin_raise" THEN SetupEnds(q, "raised")
       ELSE IF f = "add_fail" THEN SetupEnds(a, "returned")
       ELSE RegisterProject([a EXCEPT !.repo[p].origin = TRUE], p, t)

\* Lines 60-67 and 110-111: add origin when none is configured, then register.
EnsureOrigin(s, p, f, t) ==
    LET q == Did(s, <<"get_origin">>)
        a == Did(q, <<"add_origin">>)
    IN IF f = "origin_raise" THEN SetupEnds(q, "raised")
       ELSE IF s.repo[p].origin THEN RegisterProject(q, p, t)
       ELSE IF f = "add_fail" THEN SetupEnds(a, "returned")
       ELSE RegisterProject([a EXCEPT !.repo[p].origin = TRUE], p, t)

\* A setup that logs the failed repository creation and goes on.
CreateUnchecked(s, p, f, t) ==
    LET u == Did(s, <<"url">>)
        q == Did(u, <<"probe">>)
        c == Did(q, <<"create">>)
    IN IF f = "url_fail" THEN SetupEnds(u, "returned")
       ELSE IF f = "probe_raise" THEN SetupEnds(q, "raised")
       ELSE IF s.repo[p].remote THEN EnsureOrigin(q, p, f, t)
       ELSE IF f = "create_fail" THEN EnsureOrigin(c, p, f, t)
       ELSE EnsureOrigin([c EXCEPT !.repo[p].remote = TRUE], p, f, t)

\* Lines 46-58: resolve the URL, probe the remote, create it when the probe fails.
EnsureRemote(s, p, f, t) ==
    LET u == Did(s, <<"url">>)
        q == Did(u, <<"probe">>)
        c == Did(q, <<"create">>)
    IN IF f = "url_fail" THEN SetupEnds(u, "returned")
       ELSE IF f = "probe_raise" THEN SetupEnds(q, "raised")
       ELSE IF s.repo[p].remote THEN EnsureOrigin(q, p, f, t)
       ELSE IF f = "create_fail" THEN SetupEnds(c, "returned")
       ELSE EnsureOrigin([c EXCEPT !.repo[p].remote = TRUE], p, f, t)

\* Lines 36-44, then the rest: init and pull.rebase when .git is absent.
sync_project(s, p, f, t) ==
    LET a == [s EXCEPT !.calls = Append(s.calls, <<>>),
                       !.late  = IF f = Slow THEN s.late + 1 ELSE s.late]
        i == Did(a, <<"init">>)
        b == Did([i EXCEPT !.repo[p].hasGit = TRUE], <<"rebase">>)
    IN IF s.repo[p].hasGit THEN EnsureRemote(a, p, f, t)
       ELSE IF f = "init_fail" THEN SetupEnds(i, "returned")
       ELSE IF f = "rebase_fail" THEN SetupEnds(b, "returned")
       ELSE EnsureRemote(b, p, f, t)

\* for project_config in projects: sync_project(project_config) -- an exception
\* leaves the loop, and the projects after it are never set up.
RECURSIVE SyncAll(_, _, _, _, _)
SyncAll(s, ps, fs, i, t) ==
    IF i > Len(ps) THEN s
    ELSE LET r == sync_project(s, ps[i], fs[i], t)
         IN IF r.results[i] = "raised"
            THEN [r EXCEPT !.results =
                     r.results \o [k \in 1..(Len(ps) - i) |-> "skipped"]]
            ELSE SyncAll(r, ps, fs, i + 1, t)

\* ----------------------------------------------------- check_config_changes
\* The comparison written with >= : an unchanged file is reloaded at every poll.
ShouldReloadOrEqual(cur, last) == last = None \/ cur >= last

\* The comparison written with != : a file whose time moved backwards is reloaded.
ShouldReloadAnyChange(cur, last) == last = None \/ cur # last

\* if config_last_modified is None or current_last_modified > config_last_modified
ShouldReload(cur, last) == last = None \/ cur > last

NoPoll == [kind |-> "none", mtime |-> None, results |-> <<>>, startup |-> FALSE,
           had |-> 0, calls |-> <<>>, before |-> <<>>]

NeverLoaded == [projects |-> <<>>, scheduled |-> <<>>]

ProjectsOf(reg) == [k \in 1..Len(ProjectJobs(reg)) |-> ProjectJobs(reg)[k].proj]

\* A reload that validates before it clears: a failed load keeps the old jobs.
ReloadFailedKeeps(same, cleared) ==
    [same EXCEPT !.clm = cleared.clm, !.config = cleared.config,
                 !.poll.kind = "failed"]

\* Lines 142-144: load_config gave nothing usable; the handler returns with the
\* project jobs cancelled and the new modification time recorded.
ReloadFailed(same, cleared) == [cleared EXCEPT !.poll.kind = "failed"]

\* Line 141 raises: config is never assigned, and line 159 logs the error; the
\* project jobs are cancelled and the new modification time is recorded.
LoadRaised(same, cleared) ==
    [cleared EXCEPT !.config = same.config, !.poll.kind = "unreadable"]

\* The whole handler, as the values it leaves behind.  fs are the setup faults of
\* the listed projects, t the clock, atStartup whether main calls it (line 164).
check_config_changes(fs, t, atStartup) ==
    LET same == [clm |-> config_last_modified, config |-> config,
                 lastLoaded |-> lastLoaded, jobs |-> jobs, registry |-> registry,
                 credentials |-> credentials, repo |-> repo, stamp |-> stamp,
                 now |-> t,
                 poll |-> [kind |-> "noop", mtime |-> fileMtime, results |-> <<>>,
                           startup |-> atStartup, had |-> Len(jobs),
                           calls |-> <<>>, before |-> <<>>]]
    IN IF ~fileExists
       THEN \* os.path.getmtime raises FileNotFoundError
            [same EXCEPT !.poll.kind = "missing", !.poll.mtime = None]
       ELSE IF ~ShouldReload(fileMtime, config_last_modified) THEN same
       ELSE LET cleared == [same EXCEPT !.clm = fileMtime,
                                        !.registry = CancelAll(registry, jobs),
                                        !.jobs = <<>>,
                                        !.config = load_config(fileExists, fileDoc)]
            IN IF LoadRaises(fileExists, fileDoc)
               THEN LoadRaised(same, cleared)
               ELSE IF ~Truthy(cleared.config)
               THEN ReloadFailed(same, cleared)
               ELSE LET s0 == [repo |-> repo, registry |-> cleared.registry,
                               jobs |-> <<>>, stamp |-> stamp, results |-> <<>>,
                               calls |-> <<>>, late |-> 0]
                        s1 == SyncAll(s0, cleared.config.projects, fs, 1, t)
                        raised == \E i \in 1..Len(s1.results) :
                                      s1.results[i] = "raised"
                    IN [cleared EXCEPT
                          !.lastLoaded = [projects |-> cleared.config.projects,
                                          scheduled |-> ProjectsOf(s1.registry)],
                          !.credentials = cleared.config.user,
                          !.repo = s1.repo,
                          !.registry = s1.registry,
                          !.jobs = s1.jobs,
                          !.stamp = s1.stamp,
                          !.now = t + s1.late,
                          !.poll.kind = IF raised THEN "aborted" ELSE "reloaded",
                          !.poll.results = s1.results,
                          !.poll.calls = s1.calls,
                          !.poll.before =
                              [k \in 1..Len(s1.calls) |->
                                  repo[cleared.config.projects[k]]]]

\* The setup faults this poll can meet, among SF: one per listed project when it
\* reloads.
FaultChoices(SF) ==
    IF fileExists /\ ShouldReload(fileMtime, config_last_modified)
       /\ Truthy(load_config(fileExists, fileDoc))
    THEN [1..Len(fileDoc.projects) -> SF]
    ELSE {<<>>}

\* ---------------------------------------------------------- commit_and_push
\* The one call of a cycle that goes wrong, if any: *_fail returns False, *_raise
\* raises an exception (caught at line 107).
CycleFaults == {"none", "add_fail", "add_raise", "diff_raise", "gen_raise",
                "commit_fail", "commit_raise", "pull_fail", "pull_raise",
                "push_fail", "push_raise"}

\* git add .: every change of the folder is staged.
git_add(r) == [r EXCEPT !.staged = r.staged \/ r.dirty, !.dirty = FALSE]

\* get_git_diff: the staged changes; empty when the index equals HEAD.
get_git_diff(r) == IF r.staged THEN "nonempty" ELSE "empty"

\* git commit: the staged changes become a local commit.
git_commit(r) == [r EXCEPT !.staged = FALSE, !.ahead = r.ahead + 1]

\* git push: the remote receives every local commit.
git_push(r) == [r EXCEPT !.ahead = 0]

\* if diff: -- the empty string (and None) is false.
DiffAlways(d) == TRUE
HasDiff(d) == d = "nonempty"

\* A fallback that leaves the message empty.
FallbackEmpty(m) == IF MsgTruthy(m) THEN m.text ELSE <<>>

\* if not commit_message: commit_message = "Auto commit"
Fallback(m) == IF MsgTruthy(m) THEN m.text ELSE AutoCommit

\* The sentinel test written with == : only a message that is the marker stops.
IsSentinel(text) == text = SYNTAX_ERROR

\* if "SYNTAX_ERROR" in commit_message: return
HasSentinel(text) == Contains(text, SYNTAX_ERROR)

NoCycle == [proj |-> 0, calls |-> <<>>, diff |-> "none", generated |-> NullMsg,
            message |-> NullMsg, fault |-> "none", end |-> "none", prev |-> FALSE,
            before |-> FreshRepo, after |-> FreshRepo]

CycleEnds(c, how, r) == [c EXCEPT !.end = how, !.after = r]

\* A cycle that logs the failed pull and goes on to push.
PushAfterFailedPull(c, r, f) ==
    LET c2 == [c EXCEPT !.calls = c.calls \o <<"pull", "push">>]
    IN IF f \in {"push_fail", "push_raise"} THEN [c2 EXCEPT !.end = "push_failed", !.after = r]
       ELSE [c2 EXCEPT !.end = IF f = "pull_fail" THEN "pull_failed" ELSE "pushed",
                       !.after = [r EXCEPT !.ahead = 0]]

\* Lines 95-103: pull, then push.
PullAndPush(c, r, f) ==
    LET c1 == [c EXCEPT !.calls = Append(c.calls, "pull")]
        c2 == [c1 EXCEPT !.calls = Append(c1.calls, "push")]
    IN IF f = "pull_raise" THEN CycleEnds(c1, "raised", r)
       ELSE IF f = "pull_fail" THEN CycleEnds(c1, "pull_failed", r)
       ELSE IF f = "push_raise" THEN CycleEnds(c2, "raised", r)
       ELSE IF f = "push_fail" THEN CycleEnds(c2, "push_failed", r)
       ELSE CycleEnds(c2, "pushed", git_push(r))

\* A cycle that logs the failed commit and goes on to pull and push.
CommitUnchecked(c, r, f, m) ==
    LET c1 == [c EXCEPT !.calls = Append(c.calls, "generate")]
        c2 == [c1 EXCEPT !.generated = m]
        c3 == [c2 EXCEPT !.calls = Append(c2.calls, "commit"),
                         !.message = Str(Fallback(m))]
    IN IF f = "gen_raise" THEN CycleEnds(c1, "raised", r)
       ELSE IF HasSentinel(Fallback(m)) THEN CycleEnds(c2, "sentinel", r)
       ELSE IF f = "commit_raise" THEN CycleEnds(c3, "raised", r)
       ELSE PullAndPush(c3, IF f = "commit_fail" THEN r ELSE git_commit(r), f)

\* Lines 79-93: generate the message, fall back, stop on the sentinel, commit.
CommitStaged(c, r, f, m) ==
    LET c1 == [c EXCEPT !.calls = Append(c.calls, "generate")]
        text == Fallback(m)
        c2 == [c1 EXCEPT !.generated = m]
        c3 == [c2 EXCEPT !.calls = Append(c2.calls, "commit"),
                         !.message = Str(text)]
    IN IF f = "gen_raise" THEN CycleEnds(c1, "raised", r)
       ELSE IF HasSentinel(text) THEN CycleEnds(c2, "sentinel", r)
       ELSE IF f = "commit_raise" THEN CycleEnds(c3, "raised", r)
       ELSE IF f = "commit_fail" THEN CycleEnds(c3, "commit_failed", r)
       ELSE PullAndPush(c3, git_commit(r), f)

\* The whole cycle of project p on repository r0: the record of what it did, its
\* field after being the repository it leaves.  f is the fault it meets, m what
\* generate_commit_message returns, prev whether its last cycle's pull failed.
commit_and_push(p, r0, f, m, prev) ==
    LET c0 == [NoCycle EXCEPT !.proj = p, !.fault = f, !.prev = prev,
                              !.before = r0, !.calls = <<"add">>]
        r1 == git_add(r0)
        c1 == [c0 EXCEPT !.calls = Append(c0.calls, "diff")]
        c2 == [c1 EXCEPT !.diff = get_git_diff(r1)]
    IN IF f = "add_raise" THEN CycleEnds(c0, "raised", r0)
       ELSE IF f = "add_fail" THEN CycleEnds(c0, "add_failed", r0)
       ELSE IF f = "diff_raise" THEN CycleEnds(c1, "raised", r1)
       ELSE IF HasDiff(c2.diff) THEN CommitStaged(c2, r1, f, m)
       ELSE CycleEnds(c2, "noop", r1)

\* The faults and messages a cycle on repository r can meet: a call that is never
\* made cannot fail, and a message is returned only when one is asked for.
StepOf(f) ==
    CASE f \in {"add_fail", "add_raise"} -> 1
      [] f = "diff_raise" -> 2
      [] f = "gen_raise" -> 3
      [] f \in {"commit_fail", "commit_raise"} -> 4
      [] f \in {"pull_fail", "pull_raise"} -> 5
      [] f \in {"push_fail", "push_raise"} -> 6
      [] OTHER -> 0

CycleChoices(r, F) ==
    IF r.staged \/ r.dirty
    THEN {<<f, m>> \in F \X Messages :
             /\ (StepOf(f) \in {1, 2, 3} => m = NullMsg)
             /\ (StepOf(f) > 3 => ~HasSentinel(Fallback(m)))}
    ELSE {<<f, NullMsg>> : f \in {g \in F : StepOf(g) <= 2}}

\* ------------------------------------------------------------------ actions
\* The state when main starts, whatever config.json and the folders are.
Started ==
    /\ pc = "main"
    /\ running = TRUE
    /\ exitStatus = -1
    /\ now = 0
    /\ stamp = 0
    /\ config_last_modified = None
    /\ config = NoConfig
    /\ lastLoaded = NeverLoaded
    /\ jobs = <<>>
    /\ registry = <<>>
    /\ pending = <<>>
    /\ credentials = NoUser
    /\ poll = NoPoll
    /\ cycle = NoCycle
    /\ unpulled = [p \in Projects |-> FALSE]

\* config.json is absent (no content, no modification time) or holds any document;
\* the folders are new.
Init ==
    /\ Started
    /\ fileMtime = 0
    /\ \/ fileExists = FALSE /\ fileDoc = NoConfig
       \/ fileExists = TRUE /\ fileDoc \in Docs
    /\ repo = [p \in Projects |-> FreshRepo]

fileVars  == <<fileExists, fileMtime, fileDoc>>
mainVars  == <<pc, running, exitStatus>>
pollVars  == <<config_last_modified, config, lastLoaded, jobs, credentials, poll>>
cycleVars == <<cycle, unpulled>>

\* What check_config_changes leaves behind, but for the registry.
Polled(r) ==
    /\ config_last_modified' = r.clm
    /\ config' = r.config
    /\ lastLoaded' = r.lastLoaded
    /\ jobs' = r.jobs
    /\ credentials' = r.credentials
    /\ repo' = r.repo
    /\ poll' = r.poll

\* main, line 164: the first check_config_changes, before any task is registered.
\* SF are the faults setup can show.
Startup(SF) ==
    /\ pc = "main"
    /\ \E fs \in FaultChoices(SF) :
          LET r == check_config_changes(fs, now, TRUE)
          IN /\ r.now <= MaxClock
             /\ Polled(r)
             /\ registry' = r.registry
             /\ stamp' = r.stamp
             /\ now' = r.now
    /\ pc' = "register"
    /\ UNCHANGED <<running, exitStatus, fileVars, pending, cycleVars>>

\* main, line 166: schedule.every(1).minute.do(check_config_changes)
RegisterReload ==
    /\ pc = "register"
    /\ registry' = Append(registry, NewJob("reload", 0, ReloadEvery, now, stamp + 1))
    /\ stamp' = stamp + 1
    /\ pc' = "loop"
    /\ UNCHANGED <<running, exitStatus, now, fileVars, pollVars, repo, pending,
                   cycleVars>>

\* main, lines 168-169: while running: schedule.run_pending() fixes the due jobs.
RunPending ==
    /\ pc = "loop"
    /\ running
    /\ pending' = RunnableJobs(registry, now)
    /\ pc' = "tick"
    /\ UNCHANGED <<running, exitStatus, now, stamp, fileVars, pollVars, registry,
                   repo, cycleVars>>

\* run_pending runs the reload job: check_config_changes, then its next run.
RunReloadJob(SF) ==
    /\ pc = "tick"
    /\ pending # <<>>
    /\ Head(pending).kind = "reload"
    /\ \E fs \in FaultChoices(SF) :
          LET r == check_config_changes(fs, now, FALSE)
          IN /\ r.now <= MaxClock
             /\ Polled(r)
             /\ registry' = Reschedule(r.registry, Head(pending).id, ReloadEvery,
                                       r.now, r.stamp + 1)
             /\ stamp' = r.stamp + 1
             /\ now' = r.now
    /\ pending' = Tail(pending)
    /\ UNCHANGED <<mainVars, fileVars, cycleVars>>

\* run_pending runs a project job: its commit_and_push, then its next run.  F are
\* the faults the collaborators can show.
RunProjectJob(F) ==
    /\ pc = "tick"
    /\ pending # <<>>
    /\ Head(pending).kind = "project"
    /\ LET p == Head(pending).proj
       IN /\ \E fm \in CycleChoices(repo[p], F) :
                LET c == commit_and_push(p, repo[p], fm[1], fm[2], unpulled[p])
                IN /\ cycle' = c
                   /\ repo' = [repo EXCEPT ![p] = c.after]
                   /\ unpulled' = [unpulled EXCEPT ![p] = (c.end = "pull_failed")]
          /\ registry' = Reschedule(registry, Head(pending).id, Interval(p), now,
                                    stamp + 1)
    /\ stamp' = stamp + 1
    /\ pending' = Tail(pending)
    /\ UNCHANGED <<mainVars, now, fileVars, pollVars>>

\* main, line 170: time.sleep(1) once every due job has run.  The loop is followed
\* until the clock shows last.
Sleep(last) ==
    /\ pc = "tick"
    /\ pending = <<>>
    /\ now < last
    /\ now' = now + 1
    /\ pc' = "loop"
    /\ UNCHANGED <<running, exitStatus, stamp, fileVars, pollVars, registry, repo,
                   pending, cycleVars>>

\* A handler that clears the flag and returns: the loop ends at its next test.
FlagOnly ==
    /\ pc # "exited"
    /\ running
    /\ running' = FALSE
    /\ UNCHANGED <<pc, exitStatus, now, stamp, fileExists, fileMtime, fileDoc,
                   config_last_modified, config, lastLoaded, jobs, credentials, poll,
                   registry, repo, pending, cycle, unpulled>>

\* signal_handler: running = False; sys.exit(0).
signal_handler ==
    /\ pc # "exited"
    /\ running' = FALSE
    /\ exitStatus' = 0
    /\ pc' = "exited"
    /\ UNCHANGED <<now, stamp, fileVars, pollVars, registry, repo, pending,
                   cycleVars>>

\* The environment writes config.json: any document, any modification time.
\* Only check_config_changes reads the file, so a write during a tick is seen as
\* one made before that tick or before the next one: writes are taken between ticks.
EditConfig ==
    /\ pc = "loop"
    /\ \E d \in Docs, mt \in 0..MaxMtime :
          /\ fileDoc' = d
          /\ fileMtime' = mt
    /\ fileExists' = TRUE
    /\ UNCHANGED <<mainVars, now, stamp, pollVars, registry, repo, pending,
                   cycleVars>>

\* The environment removes config.json.
RemoveConfig ==
    /\ pc = "loop"
    /\ fileExists
    /\ fileExists' = FALSE
    /\ fileDoc' = NoConfig
    /\ fileMtime' = 0
    /\ UNCHANGED <<mainVars, now, stamp, pollVars, registry, repo, pending,
                   cycleVars>>

\* The environment changes a file of a project's folder (taken between ticks: only
\* that project's commit_and_push reads the folder).
LocalChange ==
    /\ pc = "loop"
    /\ \E p \in Projects :
          /\ ~repo[p].dirty
          /\ repo[p].ahead + (IF repo[p].staged THEN 1 ELSE 0) < MaxAhead
          /\ repo' = [repo EXCEPT ![p].dirty = TRUE]
    /\ UNCHANGED <<mainVars, now, stamp, fileVars, pollVars, registry, pending,
                   cycleVars>>

\* The environment writes a configuration to config.json, as an editor does: the
\* modification time advances.
ReplaceConfig ==
    /\ pc = "loop"
    /\ fileExists
    /\ fileMtime < MaxMtime
    /\ fileMtime' = fileMtime + 1
    /\ \E d \in ConfigDocs : fileDoc' = d
    /\ UNCHANGED <<fileExists, mainVars, now, stamp, pollVars, registry, repo,
                   pending, cycleVars>>

\* The environment puts a configuration where there was no file (written, copied
\* or moved there: any modification time).
CreateConfig ==
    /\ pc = "loop"
    /\ ~fileExists
    /\ fileExists' = TRUE
    /\ \E d \in ConfigDocs, mt \in 0..MaxMtime :
          /\ fileDoc' = d
          /\ fileMtime' = mt
    /\ UNCHANGED <<mainVars, now, stamp, pollVars, registry, repo, pending,
                   cycleVars>>

\* The environment grants read permission on config.json (chmod): the content
\* can be opened, the modification time is as before.
MakeReadable ==
    /\ pc = "loop"
    /\ fileExists
    /\ fileDoc = Unreadable
    /\ \E d \in ConfigDocs : fileDoc' = d
    /\ UNCHANGED <<fileExists, fileMtime, mainVars, now, stamp, pollVars, registry,
                   repo, pending, cycleVars>>

Main(SF, last) ==
    Startup(SF) \/ RegisterReload \/ RunPending \/ RunReloadJob(SF) \/ Sleep(last)

Next == Main(SetupFaults \cup {Slow}, MaxClock) \/ RunProjectJob(CycleFaults)
        \/ signal_handler \/ EditConfig \/ RemoveConfig \/ LocalChange
        \/ ReplaceConfig \/ CreateConfig \/ MakeReadable

Spec == Init /\ [][Next]_vars

\* The configuration watcher: config.json is edited and removed while the loop
\* runs; the folders are left alone, so every cycle finds nothing to stage, and
\* the calls of a cycle succeed.  A project's setup succeeds, returns early (no
\* remote URL) or raises (the probe).
ReloadFaults == {"none", "url_fail", "probe_raise"}

NextReload == Main(ReloadFaults, WatchClock) \/ RunProjectJob({"none"}) \/ signal_handler
              \/ EditConfig \/ RemoveConfig

SpecReload == Init /\ [][NextReload]_vars

\* The synchronizer: config.json is valid and left alone, every setup succeeds; the
\* folders change and the calls of a cycle fail in every way.
InitCycle ==
    /\ Started
    /\ fileMtime = 0
    /\ fileExists = TRUE
    /\ fileDoc \in ConfigDocs
    /\ repo \in {[p \in Projects |-> r] : r \in {FreshRepo, ReadyRepo}}

NextCycle == Main({"none"}, MaxClock) \/ RunProjectJob(CycleFaults) \/ signal_handler
             \/ LocalChange

SpecCycle == InitCycle /\ [][NextCycle]_vars

\* The setup: config.json is valid and left alone; a folder may or may not have
\* .git and an origin, its remote may or may not exist, and a setup step fails in
\* every way.
SetupRepos ==
    {r \in [hasGit : BOOLEAN, remote : BOOLEAN, origin : BOOLEAN,
            dirty : {FALSE}, staged : {FALSE}, ahead : {0}] : r.origin => r.hasGit}

InitSetup ==
    /\ Started
    /\ fileMtime = 0
    /\ fileExists = TRUE
    /\ fileDoc \in ConfigDocs
    /\ repo \in [Projects -> SetupRepos]

NextSetup == Main(SetupFaults, WatchClock) \/ RunProjectJob({"none"}) \/ signal_handler

SpecSetup == InitSetup /\ [][NextSetup]_vars

\* The start without a usable file: config.json is absent or cannot be opened when
\* main starts, and a configuration appears (or becomes readable) later.
InitStartup ==
    /\ Started
    /\ fileMtime = 0
    /\ \/ fileExists = FALSE /\ fileDoc = NoConfig
       \/ fileExists = TRUE /\ fileDoc = Unreadable
    /\ repo = [p \in Projects |-> FreshRepo]

NextStartup == Main({"none"}, MaxClock) \/ RunProjectJob({"none"}) \/ signal_handler
               \/ CreateConfig \/ MakeReadable

SpecStartup == InitStartup /\ [][NextStartup]_vars

\* The modification times: config.json starts with any modification time and is
\* then rewritten with any other, older ones included; every setup succeeds.
InitMtime ==
    /\ Started
    /\ fileExists = TRUE
    /\ fileMtime \in 0..MaxMtime
    /\ fileDoc \in Docs
    /\ repo = [p \in Projects |-> FreshRepo]

NextMtime == Main({"none"}, WatchClock) \/ RunProjectJob({"none"}) \/ signal_handler
             \/ EditConfig \/ RemoveConfig

SpecMtime == InitMtime /\ [][NextMtime]_vars

\* The order of the tasks: configurations replace one another while the loop runs,
\* and a project's setup may take a minute.
InitOrder ==
    /\ Started
    /\ fileMtime = 0
    /\ fileExists = TRUE
    /\ fileDoc \in ConfigDocs
    /\ repo = [p \in Projects |-> FreshRepo]

NextOrder == Main({"none", Slow}, MaxClock) \/ RunProjectJob({"none"}) \/ signal_handler
             \/ ReplaceConfig

SpecOrder == InitOrder /\ [][NextOrder]_vars

\* =================================================================== claims
\* The last poll parsed config.json and went on to set the projects up.
Reloaded == poll.kind \in {"reloaded", "aborted"}

\* Main is in its loop: between two task executions.
BetweenTasks == pc \in {"loop", "tick"}

\* The projects of ps whose setup reached the registration, in order.
Kept(ps, results) ==
    LET F[i \in 0..Len(ps)] ==
            IF i = 0 THEN <<>>
            ELSE IF results[i] = "registered" THEN Append(F[i - 1], ps[i])
            ELSE F[i - 1]
    IN F[Len(ps)]

\* run_pending runs the reload job in this step.
ReloadJobRuns ==
    /\ pc = "tick"
    /\ pending # <<>>
    /\ Head(pending).kind = "reload"
    /\ pending' = Tail(pending)

\* The registry but for the next-run times: which jobs it holds, in which order.
Tasks(reg) == [k \in 1..Len(reg) |-> <<reg[k].id, reg[k].kind, reg[k].proj>>]

\* C1 (as claimed): once main's loop runs, after a successful reload of a
\* configuration with N projects the registry holds exactly N project tasks plus the
\* reload task, whatever the outcome of each project's setup.
C1_Claim ==
    (BetweenTasks /\ Reloaded) =>
        /\ Len(ProjectJobs(registry)) = Len(config.projects)
        /\ Len(ReloadJobs(registry)) = 1

\* C1 (amended): after a successful reload the registry holds exactly one project
\* task for each project whose setup ran to its end, in configuration order (N of
\* them when every setup succeeds, fewer otherwise), the jobs list names exactly
\* those tasks, and the only other task is the reload task, which is registered
\* once main is past its startup call.
C1_ReloadRegistersSetUpProjects ==
    Reloaded =>
        /\ Len(poll.results) = Len(config.projects)
        /\ ProjectsOf(registry) = Kept(config.projects, poll.results)
        /\ Len(ProjectJobs(registry)) <= Len(config.projects)
        /\ ((\A i \in 1..Len(poll.results) : poll.results[i] = "registered")
               => Len(ProjectJobs(registry)) = Len(config.projects))
        /\ jobs = [k \in 1..Len(ProjectJobs(registry)) |-> ProjectJobs(registry)[k].id]
        /\ Len(ReloadJobs(registry)) <= 1
        /\ ((BetweenTasks \/ ~poll.startup) => Len(ReloadJobs(registry)) = 1)
        /\ (pc = "register" => Len(ReloadJobs(registry)) = 0)

\* A reload by the reload task replaced two scheduled projects by a configuration of
\* two, one of whose setups failed.
C1_Witness ==
    /\ poll.kind = "reloaded"
    /\ ~poll.startup
    /\ poll.had = 2
    /\ Len(config.projects) = 2
    /\ Len(ProjectJobs(registry)) = 1
    /\ poll.results[1] = "returned"

\* C2 (as claimed, counting as the configuration's project set the projects its
\* setup let be scheduled): between task executions the task list is exactly the
\* projects of the most recently loaded configuration plus the single reload task.
C2_Claim ==
    BetweenTasks =>
        /\ ProjectsOf(registry) = lastLoaded.scheduled
        /\ Len(ReloadJobs(registry)) = 1

\* C3: a poll by the reload task that observes the recorded modification time
\* changes neither the tasks of the registry, nor the jobs list, nor the recorded
\* modification time, nor the configuration, nor the collaborators' credentials.
C3_UnchangedMtimeIsNoop ==
    [][(ReloadJobRuns /\ fileExists /\ fileMtime = config_last_modified) =>
          /\ Tasks(registry') = Tasks(registry)
          /\ ProjectJobs(registry') = ProjectJobs(registry)
          /\ jobs' = jobs
          /\ config_last_modified' = config_last_modified
          /\ config' = config
          /\ credentials' = credentials
          /\ repo' = repo
          /\ poll'.kind = "noop"]_vars

\* A no-op poll with projects scheduled, while the file holds another user's
\* configuration under the recorded modification time.
C3_Witness ==
    /\ poll.kind = "noop"
    /\ ~poll.startup
    /\ fileExists
    /\ fileMtime = config_last_modified
    /\ Truthy(fileDoc)
    /\ fileDoc.user # credentials
    /\ jobs # <<>>

\* C4: a poll that finds a newer modification time and a document that does not
\* load leaves no project task in the registry and none in the jobs list, and the
\* registry gets a project task again only in a poll that loads a configuration.
C4_FailedReloadClears ==
    /\ [](poll.kind = "failed" =>
            /\ ProjectJobs(registry) = <<>>
            /\ jobs = <<>>
            /\ config_last_modified = poll.mtime)
    /\ [][(ProjectJobs(registry) = <<>> /\ ProjectJobs(registry') # <<>>) =>
             (poll'.kind \in {"reloaded", "aborted"})]_vars

\* A malformed file replaced a loaded configuration whose two projects were
\* scheduled, and the poll cancelled both.
C4_Witness ==
    /\ poll.kind = "failed"
    /\ ~poll.startup
    /\ poll.had = 2
    /\ fileDoc = Malformed
    /\ Len(lastLoaded.scheduled) = 2
    /\ ProjectJobs(registry) = <<>>

\* C5 (as claimed): a poll by the reload task that hits a configuration error
\* while projects are scheduled leaves their tasks scheduled, and the next poll
\* reloads again although the modification time is the same.
C5_Claim ==
    [][(ReloadJobRuns /\ poll'.kind \in {"failed", "missing"} /\ jobs # <<>>) =>
          /\ jobs' = jobs
          /\ ProjectJobs(registry') = ProjectJobs(registry)
          /\ (fileExists => ShouldReload(fileMtime, config_last_modified'))]_vars

\* Whether the last cycle made call x.
Called(x) == \E i \in 1..Len(cycle.calls) : cycle.calls[i] = x

\* The last cycle's generate_commit_message returned (it was called, and did not raise).
Generated == Called("generate") /\ cycle.fault # "gen_raise"

\* C6: a cycle whose staging succeeds and whose staged diff is empty makes no
\* generate, commit, pull or push call: it ends after the diff, and the
\* repository's commits are as before.
C6_EmptyDiffStops ==
    (cycle.proj # 0 /\ Called("diff") /\ cycle.fault # "diff_raise"
       /\ cycle.diff = "empty") =>
        /\ cycle.calls = <<"add", "diff">>
        /\ cycle.end = "noop"
        /\ cycle.message = NullMsg
        /\ cycle.after.ahead = cycle.before.ahead

\* A cycle of a scheduled project found nothing staged.
C6_Witness ==
    /\ cycle.proj # 0
    /\ cycle.diff = "empty"
    /\ cycle.end = "noop"
    /\ cycle.before.hasGit

\* C7: a cycle whose generated message contains SYNTAX_ERROR calls neither commit
\* nor pull nor push, and leaves the staged changes uncommitted.
C7_SentinelStops ==
    (Generated /\ ~cycle.generated.null
       /\ Contains(cycle.generated.text, SYNTAX_ERROR)) =>
        /\ ~Called("commit") /\ ~Called("pull") /\ ~Called("push")
        /\ cycle.end = "sentinel"
        /\ cycle.after.staged
        /\ cycle.after.ahead = cycle.before.ahead

\* The generator returned a longer text with the marker inside it.
C7_Witness ==
    /\ cycle.end = "sentinel"
    /\ cycle.generated.text # SYNTAX_ERROR
    /\ Len(cycle.generated.text) > Len(SYNTAX_ERROR)

\* C8: with a non-empty staged diff, when the generator returns None or the empty
\* string commit is called with exactly "Auto commit", and when it returns a
\* non-empty message without the sentinel commit is called with exactly that message.
C8_FallbackMessage ==
    Generated =>
        /\ (~MsgTruthy(cycle.generated) =>
               Called("commit") /\ cycle.message = Str(AutoCommit))
        /\ ((MsgTruthy(cycle.generated)
               /\ ~Contains(cycle.generated.text, SYNTAX_ERROR)) =>
               Called("commit") /\ cycle.message = cycle.generated)

\* The generator returned the empty string and the cycle committed and pushed.
C8_Witness ==
    /\ Generated
    /\ cycle.generated = Str(<<>>)
    /\ cycle.message = Str(AutoCommit)
    /\ cycle.end = "pushed"

\* C9: a cycle whose pull fails after its commit does not push, and its commit
\* stays local; a project whose last cycle's pull failed is ahead of its remote;
\* and a cycle that starts ahead of the remote with no change in the folder or the
\* index finds an empty diff, calls neither pull nor push, and stays as far ahead.
C9_FailedPullStaysLocal ==
    /\ (cycle.end = "pull_failed" =>
           /\ ~Called("push")
           /\ cycle.after.ahead = cycle.before.ahead + 1)
    /\ \A p \in Projects : unpulled[p] => repo[p].ahead >= 1
    /\ ((cycle.proj # 0 /\ cycle.before.ahead >= 1
           /\ ~cycle.before.dirty /\ ~cycle.before.staged) =>
           /\ cycle.diff # "nonempty"
           /\ ~Called("pull") /\ ~Called("push")
           /\ cycle.after.ahead = cycle.before.ahead)

\* The cycle after a failed pull, with nothing new in the folder: a no-op that
\* leaves the commit unpushed.
C9_Witness ==
    /\ cycle.prev
    /\ cycle.end = "noop"
    /\ cycle.before.ahead = 1
    /\ cycle.after.ahead = 1
    /\ repo[cycle.proj].ahead = 1

\* C10 (as claimed): the cycle that follows a cycle whose pull failed after its
\* commit, when none of its own calls fails and its message is accepted, calls
\* pull and push.
C10_Claim ==
    (cycle.prev /\ cycle.fault = "none" /\ cycle.end # "sentinel") =>
        Called("pull") /\ Called("push")

\* The calls of a cycle, in the order of lines 73-100.
CycleOrder == <<"add", "diff", "generate", "commit", "pull", "push">>

\* C11: the calls of a cycle are an initial part of add, diff, generate, commit,
\* pull, push, in that order; a call that returns failure or raises is the last
\* call of its cycle; and a cycle that calls push has committed and pulled with
\* success before (a generator that returns nothing is replaced by the fallback
\* message, see C8: only its raising counts as its failure).
C11_StepsInOrder ==
    cycle.proj # 0 =>
        /\ Len(cycle.calls) <= Len(CycleOrder)
        /\ cycle.calls = SubSeq(CycleOrder, 1, Len(cycle.calls))
        /\ (StepOf(cycle.fault) # 0 => Len(cycle.calls) = StepOf(cycle.fault))
        /\ (Called("push") =>
               /\ StepOf(cycle.fault) \in {0, 6}
               /\ Called("commit") /\ Called("pull")
               /\ cycle.end \in {"pushed", "push_failed", "raised"}
               /\ cycle.diff = "nonempty")
        /\ (cycle.end \in {"add_failed", "commit_failed", "pull_failed"} =>
               ~Called("push"))

\* A cycle made the six calls and pushed.
C11_Witness ==
    /\ cycle.calls = CycleOrder
    /\ cycle.fault = "none"
    /\ cycle.end = "pushed"
    /\ cycle.after.ahead = 0

\* Whether the setup of the k-th listed project made call x in the last reload.
SetupCalled(k, x) == \E i \in 1..Len(poll.calls[k]) : poll.calls[k][i] = x

\* The calls of setup that change the folder or the host.
Mutations == {"init", "rebase", "create", "add_origin"}

\* The folder has .git and an origin, and its remote exists.
Complete(r) == r.hasGit /\ r.remote /\ r.origin

\* C12: in a reload, a project's setup calls init and the rebase configuration only
\* when its folder had no .git, calls the repository creation only when the remote
\* did not exist (the probe failed), and adds origin only when none was configured;
\* for a folder that had .git and an origin, with an existing remote, it makes no
\* mutating call, leaves folder and remote as they were, and registers the task
\* whenever the URL resolves and neither query raises.
C12_SetupOnlyWhatIsMissing ==
    Reloaded =>
        \A k \in 1..Len(poll.calls) :
            LET b == poll.before[k]
                p == config.projects[k]
            IN /\ (SetupCalled(k, "init") => ~b.hasGit)
               /\ (SetupCalled(k, "rebase") => ~b.hasGit)
               /\ (SetupCalled(k, "create") => ~b.remote)
               /\ (SetupCalled(k, "add_origin") => ~b.origin)
               /\ (Complete(b) =>
                      /\ \A x \in Mutations : ~SetupCalled(k, x)
                      /\ repo[p].hasGit /\ repo[p].remote /\ repo[p].origin
                      /\ \/ /\ poll.results[k] = "registered"
                            /\ poll.calls[k] = <<"url", "probe", "get_origin", "register">>
                            /\ \E j \in 1..Len(registry) :
                                  registry[j].kind = "project" /\ registry[j].proj = p
                         \/ /\ poll.results[k] = "returned"
                            /\ poll.calls[k] = <<"url">>
                         \/ /\ poll.results[k] = "raised"
                            /\ poll.calls[k] \in {<<"url", "probe">>,
                                                 <<"url", "probe", "get_origin">>})

\* A reload set up a complete folder (no mutation, registered) and a new one
\* (every mutation, registered).
C12_Witness ==
    /\ poll.kind = "reloaded"
    /\ Len(poll.calls) = 2
    /\ Complete(poll.before[1])
    /\ poll.calls[1] = <<"url", "probe", "get_origin", "register">>
    /\ poll.before[2] = FreshRepo
    /\ poll.calls[2] = <<"init", "rebase", "url", "probe", "create", "get_origin",
                        "add_origin", "register">>
    /\ Len(ProjectJobs(registry)) = 2

\* The calls of a setup, in the order of lines 36-110.
SetupOrder == <<"init", "rebase", "url", "probe", "create", "get_origin",
                "add_origin", "register">>

\* Where call x stands in that order.
SetupPos(x) == CHOOSE i \in 1..Len(SetupOrder) : SetupOrder[i] = x

\* The calls a setup has to make on a folder and remote found as b.
Required(b, x) ==
    CASE x \in {"init", "rebase"} -> ~b.hasGit
      [] x = "create" -> ~b.remote
      [] x = "add_origin" -> ~b.origin
      [] OTHER -> TRUE

\* C13: in a reload, the setup of a project makes the calls its folder and remote
\* require, in order, up to its last call and none after it; it registers the
\* task only as its last call, after every required call was made and with folder,
\* remote and origin in place; and a setup that returns early ended on a failed
\* init, rebase configuration, URL resolution, repository creation or origin
\* addition, made no later call, and left no task of its project in the registry.
C13_RegisteredOnlyAfterSetup ==
    Reloaded =>
        \A k \in 1..Len(poll.calls) :
            LET b    == poll.before[k]
                p    == config.projects[k]
                cs   == poll.calls[k]
                last == cs[Len(cs)]
                Req(x) == Required(b, x)
            IN /\ cs # <<>>
               /\ cs = SelectSeq(SubSeq(SetupOrder, 1, SetupPos(last)), Req)
               /\ (poll.results[k] = "registered" <=> last = "register")
               /\ (SetupCalled(k, "register") => Complete(repo[p]))
               /\ (poll.results[k] = "returned" =>
                      /\ last \in {"init", "rebase", "url", "create", "add_origin"}
                      /\ ~SetupCalled(k, "register")
                      /\ \A j \in 1..Len(registry) :
                            registry[j].kind = "project" => registry[j].proj # p)
               /\ (poll.results[k] = "raised" => last \in {"probe", "get_origin"})

\* The first project's repository creation failed and the second was registered.
C13_Witness ==
    /\ poll.kind = "reloaded"
    /\ poll.results = <<"returned", "registered">>
    /\ poll.calls[1] = <<"init", "rebase", "url", "probe", "create">>
    /\ ProjectsOf(registry) = <<config.projects[2]>>
    /\ ~repo[config.projects[1]].remote

\* run_pending runs a project job in this step.
ProjectJobRuns ==
    /\ pc = "tick"
    /\ pending # <<>>
    /\ Head(pending).kind = "project"
    /\ pending' = Tail(pending)

\* The cycle stopped on a call that returned failure or raised.
CycleFailed(c) ==
    c.end \in {"add_failed", "commit_failed", "pull_failed", "push_failed", "raised"}

\* C14: when a project's cycle fails (a call returns failure or raises), the
\* registry holds the same tasks in the same order and the jobs list is as before,
\* the failing project's task is scheduled one interval ahead, every other task
\* keeps its next run, the rest of the tick's due tasks are still to run, and the
\* loop goes on (running stays true, the process has not exited).
C14_FailedCycleKeepsSchedule ==
    [][(ProjectJobRuns /\ CycleFailed(cycle')) =>
          LET id == Head(pending).id
              p  == Head(pending).proj
          IN /\ Tasks(registry') = Tasks(registry)
             /\ jobs' = jobs
             /\ \E k \in 1..Len(registry') :
                   /\ registry'[k].id = id
                   /\ registry'[k].tick = now + Interval(p)
             /\ \A k \in 1..Len(registry) :
                   registry[k].id # id => registry'[k] = registry[k]
             /\ pending' = Tail(pending)
             /\ pc' = "tick"
             /\ running' = TRUE
             /\ exitStatus' = -1]_vars

\* A cycle raised at its push while the reload task was still due in the same
\* tick, and its task is scheduled again.
C14_Witness ==
    /\ cycle.fault = "push_raise"
    /\ cycle.end = "raised"
    /\ pc = "tick"
    /\ pending # <<>>
    /\ Head(pending).kind = "reload"
    /\ \E k \in 1..Len(registry) :
          /\ registry[k].kind = "project"
          /\ registry[k].proj = cycle.proj
          /\ registry[k].tick = now + Interval(cycle.proj)

\* C15 (as claimed): when the startup call finds config.json missing or unreadable
\* the loop runs with no project task and the reload task registered; and as long
\* as no configuration was ever loaded, a poll by the reload task that finds a
\* valid, readable configuration file loads it and schedules its projects.
C15_Claim ==
    /\ []((poll.startup /\ poll.kind \in {"missing", "unreadable"} /\ BetweenTasks) =>
            /\ running
            /\ exitStatus = -1
            /\ ProjectJobs(registry) = <<>>
            /\ Len(ReloadJobs(registry)) = 1)
    /\ [][(ReloadJobRuns /\ lastLoaded = NeverLoaded /\ fileExists /\ Truthy(fileDoc)) =>
             /\ poll'.kind = "reloaded"
             /\ ProjectsOf(registry') = fileDoc.projects]_vars

\* C16: once the signal is handled the running flag is false, the process has
\* exited with status 0, and from then on no task runs: no cycle and no poll
\* happens, and the registry, the jobs list, the tick's due tasks and the
\* folders stay as they were, also when the signal came in the middle of a tick.
C16_NoTaskAfterSignal ==
    /\ [](~running => (pc = "exited" /\ exitStatus = 0))
    /\ [](pc = "exited" => ~running)
    /\ [][~running =>
             /\ running' = FALSE
             /\ cycle' = cycle
             /\ poll' = poll
             /\ registry' = registry
             /\ jobs' = jobs
             /\ pending' = pending
             /\ repo' = repo]_vars

\* The signal came in a tick after one project's cycle, with another task of the
\* same tick still due.
C16_Witness ==
    /\ pc = "exited"
    /\ ~running
    /\ exitStatus = 0
    /\ cycle.proj # 0
    /\ pending # <<>>

\* C17 (as claimed): the due tasks of a tick run in the order in which they were
\* registered (a task's id is its place in the order of registration).
C17_Claim ==
    pc = "tick" =>
        \A i, j \in 1..Len(pending) : i < j => pending[i].id < pending[j].id

\* C17 (amended): run_pending fixes the due tasks of the tick, each once, in the
\* order of their next-run times (not of their registration); they run one at a
\* time from the front of that list, a step of the tick running exactly the task
\* at the front (a project's cycle or the reload poll, never both), and no task is
\* pending outside a tick.
C17_DueTasksRunInNextRunOrder ==
    /\ [](pc = "tick" =>
            /\ \A i, j \in 1..Len(pending) :
                  i < j => Earlier(pending[i], pending[j])
            /\ \A i \in 1..Len(pending) : ShouldRun(pending[i], now))
    /\ [](pc \in {"main", "register", "loop"} => pending = <<>>)
    /\ [][(pc = "loop" /\ pc' = "tick") =>
             /\ \A k \in 1..Len(registry) :
                   ShouldRun(registry[k], now) <=>
                       \E i \in 1..Len(pending') : pending'[i] = registry[k]
             /\ Len(pending') = Len(SelectSeq(registry, LAMBDA j : ShouldRun(j, now)))]_vars
    /\ [][(pc = "tick" /\ pending' # pending) =>
             /\ pending' = Tail(pending)
             /\ pc' = "tick"
             /\ IF Head(pending).kind = "project"
                THEN poll' = poll /\ cycle'.proj = Head(pending).proj
                ELSE cycle' = cycle /\ ~poll'.startup]_vars

\* A tick whose first due task was registered after its second: a project task
\* registered by a reload runs before the reload task, registered at startup.
C17_Witness ==
    /\ pc = "tick"
    /\ Len(pending) >= 2
    /\ pending[1].kind = "project"
    /\ pending[2].kind = "reload"
    /\ pending[1].id > pending[2].id
    /\ Earlier(pending[1], pending[2])

\* check_config_changes runs in this step: main's startup call or the reload job.
PollRuns == (pc = "main" /\ pc' = "register") \/ ReloadJobRuns

\* C18: a call of check_config_changes that can read the file's modification time
\* reloads exactly when no time is recorded yet or the observed time is strictly
\* newer than the recorded one; a reload records the observed time even when the
\* document then fails to parse, removes every project task that was registered,
\* and keeps the reload task; a call that does not reload (time equal or moved
\* backwards, or file missing) leaves the recorded time, the configuration and
\* the tasks alone; and the recorded time changes in such calls only and never
\* decreases.
C18_ReloadIffNewer ==
    /\ [][PollRuns =>
             LET newer == fileExists /\ ShouldReload(fileMtime, config_last_modified)
             IN /\ (poll'.kind = "missing" <=> ~fileExists)
                /\ (poll'.kind \in {"reloaded", "aborted", "failed", "unreadable"}
                       <=> newer)
                /\ (fileExists =>
                       ((config_last_modified = None \/ fileMtime > config_last_modified)
                           <=> poll'.kind # "noop"))
                /\ (newer =>
                       /\ config_last_modified' = fileMtime
                       /\ \A k \in 1..Len(registry) :
                             IF registry[k].kind = "project"
                             THEN \A j \in 1..Len(registry') :
                                      registry'[j].id # registry[k].id
                             ELSE \E j \in 1..Len(registry') :
                                      /\ registry'[j].id = registry[k].id
                                      /\ registry'[j].kind = "reload")
                /\ (~newer =>
                       /\ config_last_modified' = config_last_modified
                       /\ config' = config
                       /\ jobs' = jobs
                       /\ Tasks(registry') = Tasks(registry))]_vars
    /\ [][config_last_modified' # config_last_modified =>
             /\ PollRuns
             /\ (config_last_modified # None =>
                    config_last_modified' > config_last_modified)]_vars

\* The file was replaced by another configuration with an older modification
\* time, and the reload task's poll did not reload it.
C18_Witness ==
    /\ poll.kind = "noop"
    /\ ~poll.startup
    /\ fileExists
    /\ fileMtime < config_last_modified
    /\ Truthy(fileDoc)
    /\ Truthy(config)
    /\ fileDoc.projects # config.projects
    /\ ProjectsOf(registry) = config.projects
    /\ Len(ReloadJobs(registry)) = 1

\* C19 (as claimed): a project task whose cycle runs is registered at that time:
\* no cycle runs for a task that a reload has cancelled, the rest of the tick in
\* which the reload ran included.
C19_Claim ==
    [][ProjectJobRuns =>
          \E k \in 1..Len(registry) : registry[k].id = Head(pending).id]_vars

\* C20 (as claimed): in a reload the setup of every listed project is attempted,
\* whatever happened to the projects listed before it, and every project whose
\* setup ran to its end has its task in the registry.
C20_Claim ==
    Reloaded =>
        /\ Len(poll.results) = Len(config.projects)
        /\ \A k \in 1..Len(poll.results) :
              /\ poll.results[k] # "skipped"
              /\ (poll.results[k] = "registered" =>
                     \E j \in 1..Len(registry) :
                         /\ registry[j].kind = "project"
                         /\ registry[j].proj = config.projects[k])

====
